---- MODULE Spec2Model ----
(***************************************************************************)
(* Scoring pipeline of the Go technical debt scanner: ScoreNormalizer,     *)
(* DebtThresholds and ScoreAggregator (src/scoring).                       *)
(*                                                                         *)
(* Python numbers are modelled as exact rationals [n, d] in lowest terms   *)
(* with d > 0; a raised exception is a value whose exc field names it and  *)
(* which every arithmetic operator propagates, as Python's evaluation does.*)
(***************************************************************************)
EXTENDS Integers, FiniteSets, Sequences, TLC

VARIABLES pc, fn,
          arg_value, arg_first, arg_second, norm_result,
          config, thresholds, arg_score, arg_category, level_result, ct_result,
          metrics, agg_result,
          env, summary, tool_calls, agg_calls, final_result,
          scan_results, tasks, deleted,
          repo_path, repo_tree, found_files

vars == <<pc, fn, arg_value, arg_first, arg_second, norm_result,
          config, thresholds, arg_score, arg_category, level_result, ct_result,
          metrics, agg_result,
          env, summary, tool_calls, agg_calls, final_result,
          scan_results, tasks, deleted,
          repo_path, repo_tree, found_files>>

\* the state of the API service, and of the search for Go files
service_vars == <<scan_results, tasks, deleted>>

files_vars == <<repo_path, repo_tree, found_files>>

(***************************************************************************)
(* Bounds of the model.                                                    *)
(***************************************************************************)
\* raw values and reference points are the integers -MaxVal..MaxVal
MaxVal == 4
\* thresholds lie on the grid 100*k/GridMax, scores on the grid 100*k/(2*GridMax)
GridMax == 4
\* category weights are the integers 0..MaxWeight
MaxWeight == 2

(***************************************************************************)
(* Python arithmetic on numbers, with exception propagation.               *)
(***************************************************************************)
Abs(x) == IF x < 0 THEN -x ELSE x

RECURSIVE GCD(_, _)
GCD(a, b) == IF b = 0 THEN a ELSE GCD(b, a % b)

\* the number n/d (d # 0) in lowest terms
Num(n, d) ==
    LET g == GCD(Abs(n), Abs(d))
        s == IF d < 0 THEN -1 ELSE 1
    IN  [exc |-> "none", n |-> (s * n) \div g, d |-> (s * d) \div g]

Z(i) == Num(i, 1)

Raise(e) == [exc |-> e, n |-> 0, d |-> 1]

IsExc(x) == x.exc # "none"

Add(a, b) ==
    IF IsExc(a) THEN a ELSE IF IsExc(b) THEN b
    ELSE Num(a.n * b.d + b.n * a.d, a.d * b.d)

Sub(a, b) ==
    IF IsExc(a) THEN a ELSE IF IsExc(b) THEN b
    ELSE Num(a.n * b.d - b.n * a.d, a.d * b.d)

Mul(a, b) ==
    IF IsExc(a) THEN a ELSE IF IsExc(b) THEN b
    ELSE Num(a.n * b.n, a.d * b.d)

\* Python's true division: x / 0 raises ZeroDivisionError
Div(a, b) ==
    IF IsExc(a) THEN a ELSE IF IsExc(b) THEN b
    ELSE IF b.n = 0 THEN Raise("ZeroDivisionError")
    ELSE Num(a.n * b.d, a.d * b.n)

Less(a, b) == a.n * b.d < b.n * a.d

Leq(a, b) == a.n * b.d <= b.n * a.d

\* Python's max(a, b) and min(a, b): the first argument wins a tie
PyMax(a, b) ==
    IF IsExc(a) THEN a ELSE IF IsExc(b) THEN b
    ELSE IF Less(a, b) THEN b ELSE a

PyMin(a, b) ==
    IF IsExc(a) THEN a ELSE IF IsExc(b) THEN b
    ELSE IF Less(b, a) THEN b ELSE a

(***************************************************************************)
(* ScoreNormalizer (src/scoring/normalizer.py).                            *)
(***************************************************************************)
\* normalize without the final clamp
normalize_unclamped(value, min_value, max_value) ==
    IF max_value = min_value THEN Z(0)
    ELSE Mul(Div(Sub(value, min_value), Sub(max_value, min_value)), Z(100))

\* normalize without the scaling to 100
normalize_unscaled(value, min_value, max_value) ==
    IF max_value = min_value THEN Z(0)
    ELSE PyMax(Z(0), PyMin(Z(100),
                           Div(Sub(value, min_value), Sub(max_value, min_value))))

\* normalize without the test for a degenerate range
normalize_unguarded(value, min_value, max_value) ==
    PyMax(Z(0), PyMin(Z(100),
                      Mul(Div(Sub(value, min_value), Sub(max_value, min_value)),
                          Z(100))))

normalize(value, min_value, max_value) ==
    IF max_value = min_value THEN Z(0)
    ELSE LET normalized ==
                 Mul(Div(Sub(value, min_value), Sub(max_value, min_value)), Z(100))
         IN  PyMax(Z(0), PyMin(Z(100), normalized))

\* normalize_inverse both subtracting and swapping the reference points
normalize_inverse_twice(value, min_value, max_value) ==
    Sub(Z(100), normalize(value, max_value, min_value))

\* normalize_inverse by swapping the reference points instead of subtracting
normalize_inverse_swapped(value, min_value, max_value) ==
    normalize(value, max_value, min_value)

normalize_inverse(value, min_value, max_value) ==
    Sub(Z(100), normalize(value, min_value, max_value))

normalize_complexity(value, ideal, worst) == normalize(value, ideal, worst)

normalize_percentage(value, ideal, worst) == normalize(value, ideal, worst)

\* normalize_inverse_percentage without swapping ideal and worst
normalize_inverse_percentage_unswapped(value, ideal, worst) ==
    normalize_inverse(value, ideal, worst)

normalize_inverse_percentage(value, ideal, worst) ==
    normalize_inverse(value, worst, ideal)

normalize_count(value, ideal, worst) == normalize(value, ideal, worst)

\* normalize_ratio without swapping ideal and worst in the descending branch
normalize_ratio_unswapped(value, ideal, worst) ==
    IF Less(worst, ideal) THEN normalize_inverse(value, ideal, worst)
    ELSE normalize(value, ideal, worst)

normalize_ratio(value, ideal, worst) ==
    IF Less(worst, ideal) THEN normalize_inverse(value, worst, ideal)
    ELSE normalize(value, ideal, worst)

normalize_churn(value, ideal, worst) == normalize(value, ideal, worst)

NormalizerFns ==
    {"normalize", "normalize_inverse", "normalize_complexity",
     "normalize_percentage", "normalize_inverse_percentage",
     "normalize_count", "normalize_ratio", "normalize_churn"}

(***************************************************************************)
(* Configuration (src/main.py) and the values a state holds before any     *)
(* call has been made.                                                     *)
(***************************************************************************)
Categories ==
    {"complexity", "duplication", "test_quality", "dependencies", "churn",
     "readability"}

Thr(low, medium, high) == [low |-> low, medium |-> medium, high |-> high]

\* the configuration startup_event installs when config.yaml cannot be read
DefaultConfig ==
    ("thresholds" :> Thr(Z(0), Z(40), Z(70))) @@
    ("weights" :> (("complexity" :> Num(3, 2)) @@ ("duplication" :> Z(1)) @@
                   ("test_quality" :> Num(3, 2)) @@ ("dependencies" :> Z(1)) @@
                   ("churn" :> Num(4, 5)) @@ ("readability" :> Num(6, 5))))

NoValue == Raise("not called")

NoThr == [exc |-> "not called", val |-> Thr(Z(0), Z(0), Z(0))]

NoAgg == [exc |-> "not called", overall_score |-> Z(0),
          category_scores |-> [c \in Categories |-> Z(0)]]

\* the outcome of running an external command: how the process ended
\* ("ok", "nonzero" exit, or "missing" executable) and what it printed
Run(status, out) == [status |-> status, out |-> out]

\* a repository in which every tool runs and finds nothing
QuietEnv ==
    [go_files    |-> [total |-> 0, tests |-> 0, covered |-> 0],
     contents    |-> [comment_ratio |-> Z(0), function_length |-> Z(0)],
     has_go_mod  |-> TRUE,
     gocyclo     |-> Run("ok", [printed |-> FALSE, avg |-> Z(0), violations |-> 0]),
     gocognit    |-> Run("ok", [printed |-> FALSE, avg |-> Z(0), violations |-> 0]),
     scc         |-> Run("ok", [valid |-> TRUE, code |-> 0, duplicate |-> 0]),
     go_test     |-> Run("ok", [profile |-> TRUE]),
     go_list     |-> Run("ok", [deps |-> 0, outdated |-> 0]),
     govulncheck |-> Run("ok", [vulns |-> 0]),
     git         |-> Run("ok", [commits |-> 0, churn |-> Z(0)]),
     golint      |-> Run("ok", [issues |-> 0]),
     gofmt       |-> Run("ok", [issues |-> 0])]

NoSummary == [exc |-> "not called", val |-> <<>>]

NoFinal == [exc |-> "not called", val |-> <<>>]

\* the scanner's variables while only the scoring core is exercised
IdleScanner ==
    /\ env = QuietEnv
    /\ summary = NoSummary
    /\ tool_calls = {}
    /\ agg_calls = 0
    /\ final_result = NoFinal

\* the service's variables while no request has been made
IdleService ==
    /\ scan_results = <<>>
    /\ tasks = <<>>
    /\ deleted = {}

\* the file search's variables while no repository is searched
IdleFiles ==
    /\ repo_path = <<>>
    /\ repo_tree = {}
    /\ found_files = {}

(***************************************************************************)
(* The normalizer under arbitrary calls.                                   *)
(***************************************************************************)
RawVals == {Z(i) : i \in -MaxVal..MaxVal}

InitNorm ==
    /\ pc = "ready"
    /\ fn = "none"
    /\ arg_value = Z(0) /\ arg_first = Z(0) /\ arg_second = Z(0)
    /\ norm_result = NoValue
    /\ config = DefaultConfig
    /\ thresholds = DefaultConfig["thresholds"]
    /\ arg_score = Z(0) /\ arg_category = "none"
    /\ level_result = "none" /\ ct_result = NoThr
    /\ metrics = <<>> /\ agg_result = NoAgg
    /\ IdleScanner
    /\ IdleService
    /\ IdleFiles

NormFrame ==
    UNCHANGED <<config, thresholds, arg_score, arg_category, level_result,
                ct_result, metrics, agg_result>>

Call_normalize ==
    /\ pc = "ready"
    /\ \E v \in RawVals, a \in RawVals, b \in RawVals :
          /\ arg_value' = v /\ arg_first' = a /\ arg_second' = b
          /\ norm_result' = normalize(v, a, b)
    /\ fn' = "normalize"
    /\ pc' = "done"
    /\ UNCHANGED <<env, summary, tool_calls, agg_calls, final_result>>
    /\ UNCHANGED service_vars
    /\ UNCHANGED files_vars
    /\ NormFrame

Call_normalize_inverse ==
    /\ pc = "ready"
    /\ \E v \in RawVals, a \in RawVals, b \in RawVals :
          /\ arg_value' = v /\ arg_first' = a /\ arg_second' = b
          /\ norm_result' = normalize_inverse(v, a, b)
    /\ fn' = "normalize_inverse"
    /\ pc' = "done"
    /\ UNCHANGED <<env, summary, tool_calls, agg_calls, final_result>>
    /\ UNCHANGED service_vars
    /\ UNCHANGED files_vars
    /\ NormFrame

Call_normalize_complexity ==
    /\ pc = "ready"
    /\ \E v \in RawVals, a \in RawVals, b \in RawVals :
          /\ arg_value' = v /\ arg_first' = a /\ arg_second' = b
          /\ norm_result' = normalize_complexity(v, a, b)
    /\ fn' = "normalize_complexity"
    /\ pc' = "done"
    /\ UNCHANGED <<env, summary, tool_calls, agg_calls, final_result>>
    /\ UNCHANGED service_vars
    /\ UNCHANGED files_vars
    /\ NormFrame

Call_normalize_percentage ==
    /\ pc = "ready"
    /\ \E v \in RawVals, a \in RawVals, b \in RawVals :
          /\ arg_value' = v /\ arg_first' = a /\ arg_second' = b
          /\ norm_result' = normalize_percentage(v, a, b)
    /\ fn' = "normalize_percentage"
    /\ pc' = "done"
    /\ UNCHANGED <<env, summary, tool_calls, agg_calls, final_result>>
    /\ UNCHANGED service_vars
    /\ UNCHANGED files_vars
    /\ NormFrame

Call_normalize_inverse_percentage ==
    /\ pc = "ready"
    /\ \E v \in RawVals, a \in RawVals, b \in RawVals :
          /\ arg_value' = v /\ arg_first' = a /\ arg_second' = b
          /\ norm_result' = normalize_inverse_percentage(v, a, b)
    /\ fn' = "normalize_inverse_percentage"
    /\ pc' = "done"
    /\ UNCHANGED <<env, summary, tool_calls, agg_calls, final_result>>
    /\ UNCHANGED service_vars
    /\ UNCHANGED files_vars
    /\ NormFrame

Call_normalize_count ==
    /\ pc = "ready"
    /\ \E v \in RawVals, a \in RawVals, b \in RawVals :
          /\ arg_value' = v /\ arg_first' = a /\ arg_second' = b
          /\ norm_result' = normalize_count(v, a, b)
    /\ fn' = "normalize_count"
    /\ pc' = "done"
    /\ UNCHANGED <<env, summary, tool_calls, agg_calls, final_result>>
    /\ UNCHANGED service_vars
    /\ UNCHANGED files_vars
    /\ NormFrame

Call_normalize_ratio ==
    /\ pc = "ready"
    /\ \E v \in RawVals, a \in RawVals, b \in RawVals :
          /\ arg_value' = v /\ arg_first' = a /\ arg_second' = b
          /\ norm_result' = normalize_ratio(v, a, b)
    /\ fn' = "normalize_ratio"
    /\ pc' = "done"
    /\ UNCHANGED <<env, summary, tool_calls, agg_calls, final_result>>
    /\ UNCHANGED service_vars
    /\ UNCHANGED files_vars
    /\ NormFrame

Call_normalize_churn ==
    /\ pc = "ready"
    /\ \E v \in RawVals, a \in RawVals, b \in RawVals :
          /\ arg_value' = v /\ arg_first' = a /\ arg_second' = b
          /\ norm_result' = normalize_churn(v, a, b)
    /\ fn' = "normalize_churn"
    /\ pc' = "done"
    /\ UNCHANGED <<env, summary, tool_calls, agg_calls, final_result>>
    /\ UNCHANGED service_vars
    /\ UNCHANGED files_vars
    /\ NormFrame

NextNorm ==
    \/ Call_normalize
    \/ Call_normalize_inverse
    \/ Call_normalize_complexity
    \/ Call_normalize_percentage
    \/ Call_normalize_inverse_percentage
    \/ Call_normalize_count
    \/ Call_normalize_ratio
    \/ Call_normalize_churn

SpecNorm == InitNorm /\ [][NextNorm]_vars

(***************************************************************************)
(* DebtThresholds (src/scoring/thresholds.py).                             *)
(***************************************************************************)
\* get_debt_level with exclusive lower bounds
get_debt_level_strict(self_thresholds, score) ==
    IF Less(self_thresholds.high, score) THEN "high"
    ELSE IF Less(self_thresholds.medium, score) THEN "medium"
    ELSE "low"

get_debt_level(self_thresholds, score) ==
    IF Leq(self_thresholds.high, score) THEN "high"
    ELSE IF Leq(self_thresholds.medium, score) THEN "medium"
    ELSE "low"

get_category_thresholds(self_config, self_thresholds, category) ==
    IF "category_thresholds" \notin DOMAIN self_config
    THEN [exc |-> "KeyError", val |-> NoThr.val]
    ELSE IF category \in DOMAIN self_config["category_thresholds"]
    THEN [exc |-> "none", val |-> self_config["category_thresholds"][category]]
    ELSE [exc |-> "none", val |-> self_thresholds]

\* cut points, and scores on a grid twice as fine that also leaves [0,100]
ThrGrid == {Num(100 * k, GridMax) : k \in 0..GridMax}

ScoreGrid == {Num(100 * k, 2 * GridMax) : k \in -1..(2 * GridMax + 1)}

ThrRecords == {Thr(Z(0), m, h) : m \in ThrGrid, h \in ThrGrid}

\* the category_thresholds section: empty, or one category overridden
CategoryThresholdMaps ==
    {<<>>} \cup
    {(c :> Thr(Z(0), m, h)) : c \in Categories,
                              m \in {x \in ThrGrid : Leq(x, Z(50))},
                              h \in {y \in ThrGrid : Leq(Z(50), y)}}

\* configurations with the required thresholds section and an optional
\* category_thresholds section
ThresholdConfigs ==
    LET base == {("thresholds" :> t) @@ ("weights" :> DefaultConfig["weights"]) :
                   t \in ThrRecords}
    IN  base \cup {DefaultConfig}
             \cup {("category_thresholds" :> ct) @@ b :
                     ct \in CategoryThresholdMaps, b \in base}

CategoryArgs == Categories \cup {"overall"}

\* DebtThresholds.__init__
InitThresholds ==
    /\ pc = "ready"
    /\ fn = "none"
    /\ arg_value = Z(0) /\ arg_first = Z(0) /\ arg_second = Z(0)
    /\ norm_result = NoValue
    /\ config \in ThresholdConfigs
    /\ thresholds = config["thresholds"]
    /\ arg_score = Z(0) /\ arg_category = "none"
    /\ level_result = "none" /\ ct_result = NoThr
    /\ metrics = <<>> /\ agg_result = NoAgg
    /\ IdleScanner
    /\ IdleService
    /\ IdleFiles

Call_get_debt_level ==
    /\ pc = "ready"
    /\ \E score \in ScoreGrid :
          /\ arg_score' = score
          /\ level_result' = get_debt_level(thresholds, score)
    /\ fn' = "get_debt_level"
    /\ pc' = "done"
    /\ UNCHANGED <<env, summary, tool_calls, agg_calls, final_result>>
    /\ UNCHANGED service_vars
    /\ UNCHANGED files_vars
    /\ UNCHANGED <<arg_value, arg_first, arg_second, norm_result, config,
                   thresholds, arg_category, ct_result, metrics, agg_result>>

Call_get_category_thresholds ==
    /\ pc = "ready"
    /\ \E category \in CategoryArgs :
          /\ arg_category' = category
          /\ ct_result' = get_category_thresholds(config, thresholds, category)
    /\ fn' = "get_category_thresholds"
    /\ pc' = "done"
    /\ UNCHANGED <<env, summary, tool_calls, agg_calls, final_result>>
    /\ UNCHANGED service_vars
    /\ UNCHANGED files_vars
    /\ UNCHANGED <<arg_value, arg_first, arg_second, norm_result, config,
                   thresholds, arg_score, level_result, metrics, agg_result>>

\* the level main prints next to a category score in its debt breakdown
cli_level(self_config, score) ==
    IF Less(self_config["thresholds"].high, score) THEN "HIGH"
    ELSE IF Less(self_config["thresholds"].medium, score) THEN "MEDIUM"
    ELSE "LOW"

\* one line of the debt breakdown of main
Call_cli_breakdown ==
    /\ pc = "ready"
    /\ \E score \in ScoreGrid :
          /\ arg_score' = score
          /\ level_result' = cli_level(config, score)
    /\ fn' = "cli_breakdown"
    /\ pc' = "done"
    /\ UNCHANGED <<env, summary, tool_calls, agg_calls, final_result>>
    /\ UNCHANGED service_vars
    /\ UNCHANGED files_vars
    /\ UNCHANGED <<arg_value, arg_first, arg_second, norm_result, config,
                   thresholds, arg_category, ct_result, metrics, agg_result>>

NextThresholds ==
    \/ Call_get_debt_level
    \/ Call_get_category_thresholds
    \/ Call_cli_breakdown

SpecThresholds == InitThresholds /\ [][NextThresholds]_vars

(***************************************************************************)
(* ScoreAggregator (src/scoring/aggregator.py).                            *)
(***************************************************************************)
\* the field of a collector's summary that carries its score
ScoreField(c) ==
    IF c \in {"complexity", "test_quality"} THEN "overall_score" ELSE "score"

\* metrics[c][field]: a missing key raises KeyError
GetScore(m, c) ==
    IF c \in DOMAIN m /\ ScoreField(c) \in DOMAIN m[c]
    THEN m[c][ScoreField(c)]
    ELSE Raise("KeyError")

\* weights.get(c, 1): a missing key is given the weight 1
GetWeight_default(weights, c) ==
    IF c \in DOMAIN weights THEN weights[c] ELSE Z(1)

\* weights[c]: a missing key raises KeyError
GetWeight(weights, c) ==
    IF c \in DOMAIN weights THEN weights[c] ELSE Raise("KeyError")

\* sum(weights.values()), over whatever keys the mapping has
RECURSIVE SumValues(_, _)
SumValues(weights, keys) ==
    IF keys = {} THEN Z(0)
    ELSE LET k == CHOOSE x \in keys : TRUE
         IN  Add(weights[k], SumValues(weights, keys \ {k}))

AggRaise(e) == [exc |-> e, overall_score |-> Z(0),
                category_scores |-> [c \in Categories |-> Z(0)]]

\* aggregate dividing by the number of categories instead of the weight total
aggregate_by_count(self_config, m) ==
    LET category_scores == [c \in Categories |-> GetScore(m, c)]
    IN  IF \E c \in Categories : IsExc(category_scores[c])
        THEN AggRaise("KeyError")
        ELSE IF "weights" \notin DOMAIN self_config
        THEN AggRaise("KeyError")
        ELSE LET weights == self_config["weights"]
                 term(c) == Mul(category_scores[c], GetWeight(weights, c))
                 weighted ==
                     Add(Add(Add(Add(Add(term("complexity"),
                                         term("duplication")),
                                     term("test_quality")),
                                 term("dependencies")),
                             term("churn")),
                         term("readability"))
                 overall_score == Div(weighted, Z(6))
             IN  IF IsExc(overall_score)
                 THEN AggRaise(overall_score.exc)
                 ELSE [exc |-> "none", overall_score |-> overall_score,
                       category_scores |-> category_scores]

aggregate(self_config, m) ==
    LET category_scores == [c \in Categories |-> GetScore(m, c)]
    IN  IF \E c \in Categories : IsExc(category_scores[c])
        THEN AggRaise("KeyError")
        ELSE IF "weights" \notin DOMAIN self_config
        THEN AggRaise("KeyError")
        ELSE LET weights == self_config["weights"]
                 term(c) == Mul(category_scores[c], GetWeight(weights, c))
                 weighted ==
                     Add(Add(Add(Add(Add(term("complexity"),
                                         term("duplication")),
                                     term("test_quality")),
                                 term("dependencies")),
                             term("churn")),
                         term("readability"))
                 overall_score ==
                     Div(weighted, SumValues(weights, DOMAIN weights))
             IN  IF IsExc(overall_score)
                 THEN AggRaise(overall_score.exc)
                 ELSE [exc |-> "none", overall_score |-> overall_score,
                       category_scores |-> category_scores]

\* a weight key outside the six categories
ExtraKey == "security"

WeightVals == {Z(w) : w \in 0..MaxWeight}

\* weights mappings: the six keys; the six keys and one more; one key missing
WeightMaps ==
    LET full == [Categories -> WeightVals]
    IN  full
        \cup {(ExtraKey :> Z(w)) @@ f : w \in 1..MaxWeight, f \in full}
        \cup {[c \in Categories \ {x} |-> Z(1)] : x \in Categories}

AggregatorConfigs ==
    {("thresholds" :> DefaultConfig["thresholds"]) @@ ("weights" :> w) :
       w \in WeightMaps}

Summary(c, score) == (ScoreField(c) :> score)

\* the scores of section 8's examples, of a single category at 100, of all
\* categories at the same level, and one with fractions
ScoreVectors ==
    {("complexity" :> Z(80)) @@ ("duplication" :> Z(20)) @@
     ("test_quality" :> Z(50)) @@ ("dependencies" :> Z(0)) @@
     ("churn" :> Z(40)) @@ ("readability" :> Z(60))}
    \cup {[c \in Categories |-> IF c = x THEN Z(100) ELSE Z(0)] : x \in Categories}
    \cup {[c \in Categories |-> Z(l)] : l \in {0, 100}}
    \cup {[c \in Categories |-> IF c = "churn" THEN Num(100, 3) ELSE Num(175, 2)]}

\* the summaries of the six collectors, or those of five of them
MetricInputs ==
    {[c \in Categories |-> Summary(c, v[c])] : v \in ScoreVectors}
    \cup {[c \in Categories \ {x} |-> Summary(c, Z(50))] : x \in Categories}

\* ScoreAggregator.__init__
InitAggregator ==
    /\ pc = "ready"
    /\ fn = "none"
    /\ arg_value = Z(0) /\ arg_first = Z(0) /\ arg_second = Z(0)
    /\ norm_result = NoValue
    /\ config \in AggregatorConfigs
    /\ thresholds = config["thresholds"]
    /\ arg_score = Z(0) /\ arg_category = "none"
    /\ level_result = "none" /\ ct_result = NoThr
    /\ metrics = <<>> /\ agg_result = NoAgg
    /\ IdleScanner
    /\ IdleService
    /\ IdleFiles

Call_aggregate ==
    /\ pc = "ready"
    /\ \E m \in MetricInputs :
          /\ metrics' = m
          /\ agg_result' = aggregate(config, m)
    /\ fn' = "aggregate"
    /\ pc' = "done"
    /\ UNCHANGED <<env, summary, tool_calls, agg_calls, final_result>>
    /\ UNCHANGED service_vars
    /\ UNCHANGED files_vars
    /\ UNCHANGED <<arg_value, arg_first, arg_second, norm_result, config,
                   thresholds, arg_score, arg_category, level_result, ct_result>>

NextAggregator == Call_aggregate

SpecAggregator == InitAggregator /\ [][NextAggregator]_vars

(***************************************************************************)
(* The six collectors (src/metrics) and the tool runners they call         *)
(* (src/scanner/go_tools.py, src/scanner/git_analyzer.py).  A collector's  *)
(* analyze is a function of the configuration and of what the external     *)
(* commands do in the repository; its result records the summary returned  *)
(* or the exception raised, and the commands that were started.  The       *)
(* lists of offending files and functions in the summaries are left out.   *)
(***************************************************************************)
\* config[section][key]: a missing section or key raises KeyError
CfgGet(cfg, section, key) ==
    IF section \notin DOMAIN cfg THEN Raise("KeyError")
    ELSE IF key \notin DOMAIN cfg[section] THEN Raise("KeyError")
    ELSE cfg[section][key]

\* the call f(value, a, b): the arguments are evaluated before the call
Apply3(f(_, _, _), value, a, b) ==
    IF IsExc(value) THEN value
    ELSE IF IsExc(a) THEN a
    ELSE IF IsExc(b) THEN b
    ELSE f(value, a, b)

Returned(val, tools) == [exc |-> "none", val |-> val, tools |-> tools]

Failed(e, tools) == [exc |-> e, val |-> <<>>, tools |-> tools]

\* the weighted sum, not divided by the total weight
WeightedMean2_undivided(s1, w1, s2, w2) ==
    Add(Mul(s1, w1), Mul(s2, w2))

\* the plain mean of the two sub-scores
WeightedMean2_unweighted(s1, w1, s2, w2) ==
    Div(Add(s1, s2), Z(2))

\* a weighted mean of two sub-scores, as each collector writes it out
WeightedMean2(s1, w1, s2, w2) ==
    Div(Add(Mul(s1, w1), Mul(s2, w2)), Add(w1, w2))

\* GoToolRunner.run_gocyclo and run_gocognit: the parsed output
ParseComplexity(out) ==
    [average_complexity |-> IF out.printed THEN out.avg ELSE Z(0),
     functions |-> IF out.printed THEN out.violations ELSE 0]

\* ComplexityAnalyzer.analyze
complexity_analyze(cfg, e) ==
    IF e.gocyclo.status = "missing"
    THEN Failed("FileNotFoundError", {"gocyclo"})
    ELSE IF e.gocognit.status = "missing"
    THEN Failed("FileNotFoundError", {"gocyclo", "gocognit"})
    ELSE LET cyclomatic_results == ParseComplexity(e.gocyclo.out)
             cognitive_results == ParseComplexity(e.gocognit.out)
             cyclomatic_avg == cyclomatic_results.average_complexity
             cognitive_avg == cognitive_results.average_complexity
             cyclomatic_score ==
                 Apply3(normalize_complexity, cyclomatic_avg,
                        CfgGet(cfg, "complexity", "cyclomatic_ideal"),
                        CfgGet(cfg, "complexity", "cyclomatic_worst"))
             cognitive_score ==
                 Apply3(normalize_complexity, cognitive_avg,
                        CfgGet(cfg, "complexity", "cognitive_ideal"),
                        CfgGet(cfg, "complexity", "cognitive_worst"))
             overall_score ==
                 WeightedMean2(cyclomatic_score,
                               CfgGet(cfg, "complexity", "cyclomatic_weight"),
                               cognitive_score,
                               CfgGet(cfg, "complexity", "cognitive_weight"))
             tools == {"gocyclo", "gocognit"}
         IN  IF IsExc(cyclomatic_score) THEN Failed(cyclomatic_score.exc, tools)
             ELSE IF IsExc(cognitive_score) THEN Failed(cognitive_score.exc, tools)
             ELSE IF IsExc(overall_score) THEN Failed(overall_score.exc, tools)
             ELSE Returned(
                    [cyclomatic |-> [average |-> cyclomatic_avg,
                                     violations |-> cyclomatic_results.functions,
                                     score |-> cyclomatic_score],
                     cognitive |-> [average |-> cognitive_avg,
                                    violations |-> cognitive_results.functions,
                                    score |-> cognitive_score],
                     overall_score |-> overall_score],
                    tools)

\* DuplicationAnalyzer.analyze, with GoToolRunner.run_scc
duplication_analyze(cfg, e) ==
    IF e.scc.status = "missing"
    THEN Failed("FileNotFoundError", {"scc"})
    ELSE LET total_lines == IF e.scc.out.valid THEN e.scc.out.code ELSE 0
             duplicated_lines == IF e.scc.out.valid THEN e.scc.out.duplicate ELSE 0
             duplication_percentage ==
                 Mul(Div(Z(duplicated_lines), PyMax(Z(1), Z(total_lines))), Z(100))
             duplication_score ==
                 Apply3(normalize_percentage, duplication_percentage,
                        CfgGet(cfg, "duplication", "ideal_percentage"),
                        CfgGet(cfg, "duplication", "worst_percentage"))
         IN  IF IsExc(duplication_score)
             THEN Failed(duplication_score.exc, {"scc"})
             ELSE Returned(
                    [total_lines |-> total_lines,
                     duplicated_lines |-> duplicated_lines,
                     duplication_percentage |-> duplication_percentage,
                     score |-> duplication_score],
                    {"scc"})

\* TestQualityAnalyzer.analyze, with GoToolRunner.run_go_test; every file
\* found in the coverage profile counts with the placeholder coverage 70.0
test_quality_analyze(cfg, e) ==
    IF e.go_test.status = "missing"
    THEN Failed("FileNotFoundError", {"go"})
    ELSE LET total_files == e.go_files.total
             test_file_count == e.go_files.tests
             files_with_tests ==
                 IF e.go_test.out.profile THEN e.go_files.covered ELSE 0
             total_coverage == Mul(Z(70), Z(files_with_tests))
             avg_coverage == Div(total_coverage, PyMax(Z(1), Z(files_with_tests)))
             test_to_code_ratio ==
                 Div(Z(test_file_count),
                     PyMax(Z(1), Z(total_files - test_file_count)))
             coverage_score ==
                 Apply3(normalize_inverse_percentage, avg_coverage,
                        CfgGet(cfg, "test_quality", "ideal_coverage"),
                        CfgGet(cfg, "test_quality", "worst_coverage"))
             ratio_score ==
                 Apply3(normalize_ratio, test_to_code_ratio,
                        CfgGet(cfg, "test_quality", "ideal_ratio"),
                        CfgGet(cfg, "test_quality", "worst_ratio"))
             overall_score ==
                 WeightedMean2(coverage_score,
                               CfgGet(cfg, "test_quality", "coverage_weight"),
                               ratio_score,
                               CfgGet(cfg, "test_quality", "ratio_weight"))
         IN  IF IsExc(coverage_score) THEN Failed(coverage_score.exc, {"go"})
             ELSE IF IsExc(ratio_score) THEN Failed(ratio_score.exc, {"go"})
             ELSE IF IsExc(overall_score) THEN Failed(overall_score.exc, {"go"})
             ELSE Returned(
                    [test_file_count |-> test_file_count,
                     files_with_tests |-> files_with_tests,
                     files_without_tests |->
                         (total_files - test_file_count) - files_with_tests,
                     average_coverage |-> avg_coverage,
                     test_to_code_ratio |-> test_to_code_ratio,
                     coverage_score |-> coverage_score,
                     ratio_score |-> ratio_score,
                     overall_score |-> overall_score],
                    {"go"})

\* DependencyAnalyzer.analyze on a Go module: go list and govulncheck are
\* run and their output scored; a missing govulncheck is the one
\* FileNotFoundError that is caught
analyze_module(cfg, e) ==
    IF e.go_list.status = "missing"
    THEN Failed("FileNotFoundError", {"go"})
    ELSE LET dependency_count == e.go_list.out.deps
             outdated_count == e.go_list.out.outdated
             outdated_percentage ==
                 Mul(Div(Z(outdated_count), PyMax(Z(1), Z(dependency_count))),
                     Z(100))
             vulnerable_count ==
                 IF e.govulncheck.status = "missing" THEN 0
                 ELSE e.govulncheck.out.vulns
             outdated_score ==
                 Apply3(normalize_percentage, outdated_percentage,
                        CfgGet(cfg, "dependencies", "ideal_outdated"),
                        CfgGet(cfg, "dependencies", "worst_outdated"))
             vulnerable_score ==
                 Apply3(normalize_count, Z(vulnerable_count), Z(0),
                        CfgGet(cfg, "dependencies", "worst_vulnerabilities"))
             overall_score ==
                 WeightedMean2(outdated_score,
                               CfgGet(cfg, "dependencies", "outdated_weight"),
                               vulnerable_score,
                               CfgGet(cfg, "dependencies", "vulnerable_weight"))
             tools == {"go", "govulncheck"}
         IN  IF IsExc(outdated_score) THEN Failed(outdated_score.exc, tools)
             ELSE IF IsExc(vulnerable_score) THEN Failed(vulnerable_score.exc, tools)
             ELSE IF IsExc(overall_score) THEN Failed(overall_score.exc, tools)
             ELSE Returned(
                    [is_module |-> TRUE,
                     dependency_count |-> dependency_count,
                     outdated_count |-> outdated_count,
                     outdated_percentage |-> outdated_percentage,
                     vulnerable_count |-> vulnerable_count,
                     outdated_score |-> outdated_score,
                     vulnerable_score |-> vulnerable_score,
                     score |-> overall_score],
                    tools)

\* the analysis without the go.mod check
dependencies_analyze_unchecked(cfg, e) == analyze_module(cfg, e)

\* DependencyAnalyzer.analyze, with GoToolRunner.analyze_dependencies
dependencies_analyze(cfg, e) ==
    IF ~e.has_go_mod
    THEN Returned(
           [is_module |-> FALSE, dependency_count |-> 0, outdated_count |-> 0,
            outdated_percentage |-> Z(0), vulnerable_count |-> 0,
            score |-> Z(0)],
           {})
    ELSE analyze_module(cfg, e)

\* GitAnalyzer._run_git_command: a non-zero exit yields the empty output
GitOutput(run) ==
    IF run.status = "ok" THEN run.out ELSE [commits |-> 0, churn |-> Z(0)]

\* ChurnAnalyzer.analyze, with GitAnalyzer.get_repo_churn and get_file_churn
churn_analyze(cfg, e) ==
    LET days == CfgGet(cfg, "churn", "analysis_period_days")
    IN  IF IsExc(days) THEN Failed(days.exc, {})
        ELSE IF e.git.status = "missing"
        THEN Failed("FileNotFoundError", {"git"})
        ELSE LET output == GitOutput(e.git)
                 avg_churn_rate ==
                     IF e.go_files.total = 0 THEN Z(0) ELSE output.churn
                 churn_score ==
                     Apply3(normalize_churn, avg_churn_rate,
                            CfgGet(cfg, "churn", "ideal_churn_rate"),
                            CfgGet(cfg, "churn", "worst_churn_rate"))
             IN  IF IsExc(churn_score) THEN Failed(churn_score.exc, {"git"})
                 ELSE Returned(
                        [repository_churn |-> [commit_count |-> output.commits],
                         average_churn_rate |-> avg_churn_rate,
                         score |-> churn_score],
                        {"git"})

\* ReadabilityAnalyzer.analyze, with GoToolRunner.run_golint and run_gofmt,
\* which start one process per Go file
readability_analyze(cfg, e) ==
    LET n == e.go_files.total
    IN  IF n > 0 /\ e.golint.status = "missing"
        THEN Failed("FileNotFoundError", {"golint"})
        ELSE IF n > 0 /\ e.gofmt.status = "missing"
        THEN Failed("FileNotFoundError", {"golint", "gofmt"})
        ELSE LET tools == IF n > 0 THEN {"golint", "gofmt"} ELSE {}
                 lint_issues_count == IF n > 0 THEN e.golint.out.issues ELSE 0
                 fmt_issues_count == IF n > 0 THEN e.gofmt.out.issues ELSE 0
                 lint_issues_per_file == Div(Z(lint_issues_count), PyMax(Z(1), Z(n)))
                 fmt_issues_per_file == Div(Z(fmt_issues_count), PyMax(Z(1), Z(n)))
                 avg_comment_ratio ==
                     IF n > 0 THEN e.contents.comment_ratio ELSE Z(0)
                 avg_function_length ==
                     IF n > 0 THEN e.contents.function_length ELSE Z(0)
                 lint_score ==
                     Apply3(normalize_count, lint_issues_per_file,
                            CfgGet(cfg, "readability", "ideal_lint_issues"),
                            CfgGet(cfg, "readability", "worst_lint_issues"))
                 fmt_score ==
                     Apply3(normalize_count, fmt_issues_per_file,
                            CfgGet(cfg, "readability", "ideal_fmt_issues"),
                            CfgGet(cfg, "readability", "worst_fmt_issues"))
                 comment_score ==
                     Apply3(normalize_inverse_percentage,
                            Mul(avg_comment_ratio, Z(100)),
                            CfgGet(cfg, "readability", "ideal_comment_ratio"),
                            CfgGet(cfg, "readability", "worst_comment_ratio"))
                 function_length_score ==
                     Apply3(normalize_count, avg_function_length,
                            CfgGet(cfg, "readability", "ideal_function_length"),
                            CfgGet(cfg, "readability", "worst_function_length"))
                 lw == CfgGet(cfg, "readability", "lint_weight")
                 fw == CfgGet(cfg, "readability", "fmt_weight")
                 cw == CfgGet(cfg, "readability", "comment_weight")
                 flw == CfgGet(cfg, "readability", "function_length_weight")
                 overall_score ==
                     Div(Add(Add(Add(Mul(lint_score, lw), Mul(fmt_score, fw)),
                                 Mul(comment_score, cw)),
                             Mul(function_length_score, flw)),
                         Add(Add(Add(lw, fw), cw), flw))
             IN  IF IsExc(lint_score) THEN Failed(lint_score.exc, tools)
                 ELSE IF IsExc(fmt_score) THEN Failed(fmt_score.exc, tools)
                 ELSE IF IsExc(comment_score) THEN Failed(comment_score.exc, tools)
                 ELSE IF IsExc(function_length_score)
                 THEN Failed(function_length_score.exc, tools)
                 ELSE IF IsExc(overall_score) THEN Failed(overall_score.exc, tools)
                 ELSE Returned(
                        [lint_issues |-> lint_issues_count,
                         fmt_issues |-> fmt_issues_count,
                         lint_issues_per_file |-> lint_issues_per_file,
                         fmt_issues_per_file |-> fmt_issues_per_file,
                         avg_comment_ratio |-> avg_comment_ratio,
                         avg_function_length |-> avg_function_length,
                         lint_score |-> lint_score,
                         fmt_score |-> fmt_score,
                         comment_score |-> comment_score,
                         function_length_score |-> function_length_score,
                         score |-> overall_score],
                        tools)

\* self.analyzers[name].analyze(repo_path, go_files)
Analyze(name, cfg, e) ==
    CASE name = "complexity" -> complexity_analyze(cfg, e)
      [] name = "duplication" -> duplication_analyze(cfg, e)
      [] name = "test_quality" -> test_quality_analyze(cfg, e)
      [] name = "dependencies" -> dependencies_analyze(cfg, e)
      [] name = "churn" -> churn_analyze(cfg, e)
      [] name = "readability" -> readability_analyze(cfg, e)

(***************************************************************************)
(* Configurations and repositories the collectors are run on.              *)
(***************************************************************************)
\* (ideal, worst) reference points: ascending, degenerate, descending
RefPairs == {<<Z(1), Z(3)>>, <<Z(2), Z(2)>>, <<Z(3), Z(1)>>}

\* the same for percentages
PctRefPairs == {<<Z(0), Z(50)>>, <<Z(50), Z(50)>>, <<Z(100), Z(0)>>}

SubWeights == {Z(w) : w \in 0..MaxWeight}

ComplexityBlocks ==
    {[cyclomatic_ideal |-> r[1], cyclomatic_worst |-> r[2],
      cognitive_ideal |-> r[1], cognitive_worst |-> r[2],
      cyclomatic_weight |-> w1, cognitive_weight |-> w2] :
       r \in RefPairs, w1 \in SubWeights, w2 \in SubWeights}

DuplicationBlocks ==
    {[ideal_percentage |-> r[1], worst_percentage |-> r[2]] : r \in PctRefPairs}

TestQualityBlocks ==
    {[ideal_coverage |-> r1[1], worst_coverage |-> r1[2],
      ideal_ratio |-> r2[1], worst_ratio |-> r2[2],
      coverage_weight |-> w1, ratio_weight |-> w2] :
       r1 \in {<<Z(100), Z(0)>>, <<Z(50), Z(50)>>}, r2 \in RefPairs,
       w1 \in SubWeights, w2 \in SubWeights}

DependenciesBlocks ==
    {[ideal_outdated |-> r[1], worst_outdated |-> r[2],
      worst_vulnerabilities |-> v,
      outdated_weight |-> w1, vulnerable_weight |-> w2] :
       r \in {<<Z(0), Z(50)>>, <<Z(50), Z(50)>>}, v \in {Z(0), Z(2)},
       w1 \in SubWeights, w2 \in SubWeights}

ChurnBlocks ==
    {[analysis_period_days |-> Z(90),
      ideal_churn_rate |-> r[1], worst_churn_rate |-> r[2]] :
       r \in {<<Z(0), Z(3)>>, <<Z(2), Z(2)>>, <<Z(3), Z(0)>>}}

ReadabilityBlocks ==
    {[ideal_lint_issues |-> rp[1][1], worst_lint_issues |-> rp[1][2],
      ideal_fmt_issues |-> rp[1][1], worst_fmt_issues |-> rp[1][2],
      ideal_comment_ratio |-> rp[2][1], worst_comment_ratio |-> rp[2][2],
      ideal_function_length |-> rp[1][1], worst_function_length |-> rp[1][2],
      lint_weight |-> w1, fmt_weight |-> w2,
      comment_weight |-> w1, function_length_weight |-> w2] :
       rp \in {x \in RefPairs \X {<<Z(100), Z(0)>>, <<Z(50), Z(50)>>} :
                 (x[1][1] = x[1][2]) <=> (x[2][1] = x[2][2])},
       w1 \in SubWeights, w2 \in SubWeights}

\* a complete configuration file: the defaults of main.py, the six weights at
\* 1, and one block for each collector with its conventional direction
BaseConfig ==
    ("weights" :> [c \in Categories |-> Z(1)]) @@
    ("complexity" :>
        [cyclomatic_ideal |-> Z(1), cyclomatic_worst |-> Z(3),
         cognitive_ideal |-> Z(1), cognitive_worst |-> Z(3),
         cyclomatic_weight |-> Z(1), cognitive_weight |-> Z(1)]) @@
    ("duplication" :> [ideal_percentage |-> Z(0), worst_percentage |-> Z(50)]) @@
    ("test_quality" :>
        [ideal_coverage |-> Z(100), worst_coverage |-> Z(0),
         ideal_ratio |-> Z(3), worst_ratio |-> Z(1),
         coverage_weight |-> Z(1), ratio_weight |-> Z(1)]) @@
    ("dependencies" :>
        [ideal_outdated |-> Z(0), worst_outdated |-> Z(50),
         worst_vulnerabilities |-> Z(2),
         outdated_weight |-> Z(1), vulnerable_weight |-> Z(1)]) @@
    ("churn" :>
        [analysis_period_days |-> Z(90),
         ideal_churn_rate |-> Z(0), worst_churn_rate |-> Z(3)]) @@
    ("readability" :>
        [ideal_lint_issues |-> Z(1), worst_lint_issues |-> Z(3),
         ideal_fmt_issues |-> Z(1), worst_fmt_issues |-> Z(3),
         ideal_comment_ratio |-> Z(100), worst_comment_ratio |-> Z(0),
         ideal_function_length |-> Z(1), worst_function_length |-> Z(3),
         lint_weight |-> Z(1), fmt_weight |-> Z(1),
         comment_weight |-> Z(1), function_length_weight |-> Z(1)]) @@
    DefaultConfig

\* the configuration with one section replaced
WithSection(cfg, section, block) ==
    [k \in DOMAIN cfg |-> IF k = section THEN block ELSE cfg[k]]

\* the configurations a collector is constructed with: its block varied, or
\* the defaults of main.py, which have no block for any collector
ConfigsFor(name, blocks) ==
    {WithSection(BaseConfig, name, b) : b \in blocks} \cup {DefaultConfig}

\* how a command may end, for each thing it may print
Runs(outs, silent) ==
    {Run("missing", silent)} \cup
    {Run(st, o) : st \in {"ok", "nonzero"}, o \in outs}

ComplexityOuts ==
    {[printed |-> FALSE, avg |-> Z(0), violations |-> 0]} \cup
    {[printed |-> TRUE, avg |-> Z(a), violations |-> IF a > 2 THEN 1 ELSE 0] :
       a \in {0, 2, MaxVal}}

ComplexityEnvs ==
    LET runs == Runs(ComplexityOuts, QuietEnv.gocyclo.out)
    IN  {[QuietEnv EXCEPT !.gocyclo = r1, !.gocognit = r2] :
           r1 \in runs, r2 \in runs}

SccOuts ==
    {[valid |-> FALSE, code |-> 0, duplicate |-> 0]} \cup
    {[valid |-> TRUE, code |-> c, duplicate |-> d] :
       c \in {0, MaxVal}, d \in {0, 1, MaxVal}}

DuplicationEnvs ==
    {[QuietEnv EXCEPT !.scc = r] : r \in Runs(SccOuts, QuietEnv.scc.out)}

\* the Go files found: how many, how many of them tests, and how many of
\* the others appear in the coverage profile
GoFiles ==
    {f \in [total : {0, MaxVal}, tests : {0, 1, MaxVal}, covered : {0, 1}] :
       f.tests + f.covered <= f.total}

TestQualityEnvs ==
    {[QuietEnv EXCEPT !.go_files = f, !.go_test = r] :
       f \in GoFiles,
       r \in Runs({[profile |-> b] : b \in BOOLEAN}, QuietEnv.go_test.out)}

DependenciesEnvs ==
    {[QuietEnv EXCEPT !.has_go_mod = m, !.go_list = r1, !.govulncheck = r2] :
       m \in BOOLEAN,
       r1 \in Runs({x \in [deps : {0, 2}, outdated : 0..2] : x.outdated <= x.deps},
                   QuietEnv.go_list.out),
       r2 \in Runs({[vulns |-> v] : v \in {0, 1, 3}}, QuietEnv.govulncheck.out)}

ChurnEnvs ==
    {[QuietEnv EXCEPT !.go_files = [total |-> t, tests |-> 0, covered |-> 0],
                      !.git = r] :
       t \in {0, 2},
       r \in Runs({x \in [commits : {0, 2}, churn : {Z(a) : a \in 0..MaxVal}] :
                     x.commits = 0 => x.churn = Z(0)},
                  QuietEnv.git.out)}

ReadabilityEnvs ==
    {[QuietEnv EXCEPT !.go_files = [total |-> t, tests |-> 0, covered |-> 0],
                      !.contents = c, !.golint = r1, !.gofmt = r2] :
       t \in {0, 2},
       c \in {[comment_ratio |-> Z(0), function_length |-> Z(0)],
              [comment_ratio |-> Num(1, 2), function_length |-> Z(MaxVal)]},
       r1 \in Runs({[issues |-> i] : i \in {0, 2}}, QuietEnv.golint.out),
       r2 \in Runs({[issues |-> i] : i \in {0, 2}}, QuietEnv.gofmt.out)}

ConfigsOf(name) ==
    CASE name = "complexity" -> ConfigsFor(name, ComplexityBlocks)
      [] name = "duplication" -> ConfigsFor(name, DuplicationBlocks)
      [] name = "test_quality" -> ConfigsFor(name, TestQualityBlocks)
      [] name = "dependencies" -> ConfigsFor(name, DependenciesBlocks)
      [] name = "churn" -> ConfigsFor(name, ChurnBlocks)
      [] name = "readability" -> ConfigsFor(name, ReadabilityBlocks)

EnvsOf(name) ==
    CASE name = "complexity" -> ComplexityEnvs
      [] name = "duplication" -> DuplicationEnvs
      [] name = "test_quality" -> TestQualityEnvs
      [] name = "dependencies" -> DependenciesEnvs
      [] name = "churn" -> ChurnEnvs
      [] name = "readability" -> ReadabilityEnvs

(***************************************************************************)
(* Each collector constructed with a configuration and run on a            *)
(* repository.                                                             *)
(***************************************************************************)
InitCollectors ==
    /\ pc = "ready"
    /\ fn = "none"
    /\ arg_value = Z(0) /\ arg_first = Z(0) /\ arg_second = Z(0)
    /\ norm_result = NoValue
    /\ config = BaseConfig
    /\ thresholds = config["thresholds"]
    /\ arg_score = Z(0) /\ arg_category = "none"
    /\ level_result = "none" /\ ct_result = NoThr
    /\ metrics = <<>> /\ agg_result = NoAgg
    /\ IdleScanner
    /\ IdleService
    /\ IdleFiles

\* the analyzer name, constructed with cfg, has run in the repository e and
\* ended as r
RunAnalyzer(name, cfg, e, r) ==
        /\ config' = cfg
        /\ env' = e
        /\ summary' = [exc |-> r.exc, val |-> r.val]
        /\ tool_calls' = r.tools
        /\ fn' = name
        /\ pc' = "done"
        /\ UNCHANGED <<arg_value, arg_first, arg_second, norm_result,
                       thresholds, arg_score, arg_category, level_result,
                       ct_result, metrics, agg_result, agg_calls, final_result>>
        /\ UNCHANGED service_vars
        /\ UNCHANGED files_vars

Call_complexity_analyze ==
    /\ pc = "ready"
    /\ \E cfg \in ConfigsOf("complexity"), e \in EnvsOf("complexity") :
          RunAnalyzer("complexity", cfg, e, complexity_analyze(cfg, e))

Call_duplication_analyze ==
    /\ pc = "ready"
    /\ \E cfg \in ConfigsOf("duplication"), e \in EnvsOf("duplication") :
          RunAnalyzer("duplication", cfg, e, duplication_analyze(cfg, e))

Call_test_quality_analyze ==
    /\ pc = "ready"
    /\ \E cfg \in ConfigsOf("test_quality"), e \in EnvsOf("test_quality") :
          RunAnalyzer("test_quality", cfg, e, test_quality_analyze(cfg, e))

Call_dependencies_analyze ==
    /\ pc = "ready"
    /\ \E cfg \in ConfigsOf("dependencies"), e \in EnvsOf("dependencies") :
          RunAnalyzer("dependencies", cfg, e, dependencies_analyze(cfg, e))

Call_churn_analyze ==
    /\ pc = "ready"
    /\ \E cfg \in ConfigsOf("churn"), e \in EnvsOf("churn") :
          RunAnalyzer("churn", cfg, e, churn_analyze(cfg, e))

Call_readability_analyze ==
    /\ pc = "ready"
    /\ \E cfg \in ConfigsOf("readability"), e \in EnvsOf("readability") :
          RunAnalyzer("readability", cfg, e, readability_analyze(cfg, e))

NextCollectors ==
    \/ Call_complexity_analyze
    \/ Call_duplication_analyze
    \/ Call_test_quality_analyze
    \/ Call_dependencies_analyze
    \/ Call_churn_analyze
    \/ Call_readability_analyze

SpecCollectors == InitCollectors /\ [][NextCollectors]_vars

(***************************************************************************)
(* A whole scan: RepoScanner.scan, then the annotation of _run_scan.       *)
(***************************************************************************)
\* the insertion order of self.analyzers
AnalyzerOrder ==
    <<"complexity", "duplication", "test_quality", "dependencies", "churn",
      "readability">>

\* a repository with something to measure in every category
BusyEnv ==
    [go_files    |-> [total |-> 4, tests |-> 1, covered |-> 2],
     contents    |-> [comment_ratio |-> Num(1, 2), function_length |-> Z(2)],
     has_go_mod  |-> TRUE,
     gocyclo     |-> Run("ok", [printed |-> TRUE, avg |-> Z(2), violations |-> 0]),
     gocognit    |-> Run("ok", [printed |-> TRUE, avg |-> Z(3), violations |-> 1]),
     scc         |-> Run("ok", [valid |-> TRUE, code |-> 4, duplicate |-> 1]),
     go_test     |-> Run("ok", [profile |-> TRUE]),
     go_list     |-> Run("ok", [deps |-> 2, outdated |-> 1]),
     govulncheck |-> Run("ok", [vulns |-> 0]),
     git         |-> Run("ok", [commits |-> 2, churn |-> Z(1)]),
     golint      |-> Run("ok", [issues |-> 2]),
     gofmt       |-> Run("ok", [issues |-> 0])]

Binaries ==
    {"go", "gocyclo", "gocognit", "scc", "govulncheck", "git", "golint", "gofmt"}

\* the repository on a machine where one binary ends every run with st
EnvWith(bin, st) ==
    IF bin = "go"
    THEN [BusyEnv EXCEPT !.go_test.status = st, !.go_list.status = st]
    ELSE [BusyEnv EXCEPT ![bin].status = st]

ScanEnvs ==
    {BusyEnv, [BusyEnv EXCEPT !.has_go_mod = FALSE]} \cup
    {EnvWith(bin, st) : bin \in Binaries, st \in {"nonzero", "missing"}}

\* the six weights all equal (all zero included), or the defaults of main.py
ScanWeightMaps ==
    {[c \in Categories |-> Z(w)] : w \in 0..MaxWeight} \cup
    {DefaultConfig["weights"]}

\* a stricter scale for one category
StrictThresholds == ("dependencies" :> Thr(Z(0), Z(20), Z(50)))

\* configuration files as cli.py and startup_event load them: any mapping
\* the YAML holds is accepted
ScanConfigs ==
    LET weighted == {WithSection(BaseConfig, "weights", w) : w \in ScanWeightMaps}
    IN  weighted \cup
        {("category_thresholds" :> StrictThresholds) @@ cfg : cfg \in weighted}

InitScan ==
    /\ pc = "ready"
    /\ fn = "none"
    /\ arg_value = Z(0) /\ arg_first = Z(0) /\ arg_second = Z(0)
    /\ norm_result = NoValue
    /\ config \in ScanConfigs
    /\ thresholds = config["thresholds"]
    /\ arg_score = Z(0) /\ arg_category = "none"
    /\ level_result = "none" /\ ct_result = NoThr
    /\ metrics = <<>> /\ agg_result = NoAgg
    /\ env \in ScanEnvs
    /\ summary = NoSummary
    /\ tool_calls = {}
    /\ agg_calls = 0
    /\ final_result = NoFinal
    /\ IdleService
    /\ IdleFiles

ScanFrame ==
    /\ UNCHANGED <<arg_value, arg_first, arg_second, norm_result, config,
                   thresholds, arg_score, arg_category, level_result, ct_result,
                   env>>
    /\ UNCHANGED service_vars
    /\ UNCHANGED files_vars

\* scanner = RepoScanner(repo_path, config); scanner.scan() up to the loop
Scan_start ==
    /\ pc = "ready"
    /\ fn' = "scan"
    /\ pc' = "collect"
    /\ UNCHANGED <<metrics, agg_result, summary, tool_calls, agg_calls,
                   final_result>>
    /\ ScanFrame

\* where scan continues after an analyzer has run, collected being the
\* number of summaries held: the exception of the analyzer leaves scan
StepAfter_swallowing(r, collected) ==
    IF collected = Len(AnalyzerOrder) \/ r.exc # "none" THEN "aggregate"
    ELSE "collect"

StepAfter(r, collected) ==
    IF r.exc # "none" THEN "failed"
    ELSE IF collected = Len(AnalyzerOrder) THEN "aggregate"
    ELSE "collect"

\* one turn of the loop: metrics[name] = analyzer.analyze(repo_path, go_files)
Scan_collect ==
    /\ pc = "collect"
    /\ \E name \in {AnalyzerOrder[Cardinality(DOMAIN metrics) + 1]} :
       \E r \in {Analyze(name, config, env)} :
           /\ summary' = [exc |-> r.exc, val |-> r.val]
           /\ tool_calls' = tool_calls \cup r.tools
           /\ metrics' = IF r.exc # "none" THEN metrics
                         ELSE metrics @@ (name :> r.val)
           /\ final_result' = IF r.exc # "none"
                              THEN [exc |-> r.exc, val |-> <<>>]
                              ELSE final_result
           /\ pc' = StepAfter(r, Cardinality(DOMAIN metrics'))
    /\ UNCHANGED <<fn, agg_result, agg_calls>>
    /\ ScanFrame

\* overall_score, category_scores = self.aggregator.aggregate(metrics)
Scan_aggregate ==
    /\ pc = "aggregate"
    /\ agg_calls' = agg_calls + 1
    /\ \E r \in {aggregate(config, metrics)} :
          /\ agg_result' = r
          /\ final_result' = IF r.exc # "none"
                             THEN [exc |-> r.exc, val |-> <<>>]
                             ELSE final_result
          /\ pc' = IF r.exc # "none" THEN "failed" ELSE "annotate"
    /\ UNCHANGED <<fn, metrics, summary, tool_calls>>
    /\ ScanFrame

\* str.upper on the three level names
upper(level) ==
    CASE level = "low" -> "LOW"
      [] level = "medium" -> "MEDIUM"
      [] level = "high" -> "HIGH"

\* _run_scan after scanner.scan(): the levels are added to the scores
Run_scan_annotate ==
    /\ pc = "annotate"
    /\ final_result' =
          [exc |-> "none",
           val |-> [overall_score |-> agg_result.overall_score,
                    overall_level |->
                        upper(get_debt_level(thresholds, agg_result.overall_score)),
                    category_scores |->
                        [c \in Categories |->
                           [score |-> agg_result.category_scores[c],
                            level |->
                                upper(get_debt_level(
                                        thresholds,
                                        agg_result.category_scores[c]))]],
                    metrics |-> metrics]]
    /\ pc' = "done"
    /\ UNCHANGED <<fn, metrics, agg_result, summary, tool_calls, agg_calls>>
    /\ ScanFrame

NextScan ==
    \/ Scan_start
    \/ Scan_collect
    \/ Scan_aggregate
    \/ Run_scan_annotate

SpecScan == InitScan /\ [][NextScan]_vars

(***************************************************************************)
(* RepoScanner._find_go_files.  A path is the sequence of its components;  *)
(* the string the code tests is "/" followed by the components joined by   *)
(* "/".  Every directory of the tree holds one .go file.                   *)
(***************************************************************************)
\* the longest path, in components, above and below the repository root
MaxDepth == 2

\* names of the directories above the root, and of those below it
RootNames == {"srv", "vendor", ".cache"}

DirNames == {"pkg", "vendor", ".git"}

\* the names that begin with a dot
DotNames == {".cache", ".git"}

Paths(names, n) == UNION {[1..k -> names] : k \in 0..n}

\* os.path.abspath(repo_path)
RepoPaths == Paths(RootNames, MaxDepth) \ {<<>>}

\* the directories with .go files, relative to the root: at most two
RepoTrees ==
    {{}} \cup {{d1, d2} : d1 \in Paths(DirNames, MaxDepth),
                          d2 \in Paths(DirNames, MaxDepth)}

\* '/vendor/' in root: a component vendor that is not the last one
ContainsVendorSlash(root) ==
    \E i \in 1..(Len(root) - 1) : root[i] = "vendor"

\* '/.' in root: a component that begins with a dot
ContainsSlashDot(root) ==
    \E i \in 1..Len(root) : root[i] \in DotNames

\* the directories whose .go files are returned; os.walk visits the root
\* and every directory below it under its absolute path
find_go_files(self_repo_path, tree) ==
    {d \in tree :
       LET root == self_repo_path \o d
       IN  ~(ContainsVendorSlash(root) \/ ContainsSlashDot(root))}

InitFiles ==
    /\ pc = "ready"
    /\ fn = "none"
    /\ arg_value = Z(0) /\ arg_first = Z(0) /\ arg_second = Z(0)
    /\ norm_result = NoValue
    /\ config = DefaultConfig
    /\ thresholds = config["thresholds"]
    /\ arg_score = Z(0) /\ arg_category = "none"
    /\ level_result = "none" /\ ct_result = NoThr
    /\ metrics = <<>> /\ agg_result = NoAgg
    /\ IdleScanner
    /\ IdleService
    /\ repo_path \in RepoPaths
    /\ repo_tree \in RepoTrees
    /\ found_files = {}

Call_find_go_files ==
    /\ pc = "ready"
    /\ found_files' = find_go_files(repo_path, repo_tree)
    /\ fn' = "_find_go_files"
    /\ pc' = "done"
    /\ UNCHANGED <<arg_value, arg_first, arg_second, norm_result, config,
                   thresholds, arg_score, arg_category, level_result, ct_result,
                   metrics, agg_result>>
    /\ UNCHANGED <<env, summary, tool_calls, agg_calls, final_result>>
    /\ UNCHANGED service_vars
    /\ UNCHANGED <<repo_path, repo_tree>>

NextFiles == Call_find_go_files

SpecFiles == InitFiles /\ [][NextFiles]_vars

(***************************************************************************)
(* The API service: start_scan, delete_scan and the background task        *)
(* run_scan_task over the module-level store scan_results and the          *)
(* configuration object app.state.config.  The handlers run one at a time  *)
(* on the event loop; the scan runs on an executor thread and touches      *)
(* neither the store nor the configuration, so it is taken in one step     *)
(* with the resumption of its task.  The GET handlers change nothing.      *)
(***************************************************************************)
\* the number of POST /scan requests
MaxScans == 2

ScanIds == 1..MaxScans

\* the configuration startup_event loads from a complete config.yaml that
\* also gives the category complexity a scale of its own
StartupConfig ==
    ("category_thresholds" :> ("complexity" :> Thr(Z(0), Z(30), Z(60)))) @@
    BaseConfig

\* isinstance(values, dict): the values of the model that are not
\* dictionaries are numbers
isinstance_dict(values) == DOMAIN values # DOMAIN Z(0)

\* dict.update: every key of values is set, the other keys are kept
dict_update(d, values) == values @@ d

\* the bodies config_overrides takes: none, one threshold, one threshold of
\* one category, the six weights at zero, a setting that is a number, and
\* the same setting as a dictionary
Overrides ==
    {<<>>,
     ("thresholds" :> ("high" :> Z(50))),
     ("category_thresholds" :> ("complexity" :> ("high" :> Z(50)))),
     ("weights" :> [c \in Categories |-> Z(0)]),
     ("verbose" :> Z(1)),
     ("verbose" :> ("level" :> Z(1)))}

\* config[category].update(values) raises AttributeError for a category that
\* holds a number
overrides_raise(cfg, overrides) ==
    \E category \in DOMAIN overrides :
        /\ category \in DOMAIN cfg
        /\ isinstance_dict(overrides[category])
        /\ ~isinstance_dict(cfg[category])

\* the loop over config_overrides.items(), when no turn of it raises: the
\* top-level keys are distinct, so the turns do not depend on each other
apply_overrides(cfg, overrides) ==
    [category \in DOMAIN cfg \cup DOMAIN overrides |->
        IF category \notin DOMAIN overrides THEN cfg[category]
        ELSE IF category \in DOMAIN cfg /\ isinstance_dict(overrides[category])
        THEN dict_update(cfg[category], overrides[category])
        ELSE overrides[category]]

\* the entries of scan_results; message and error together are the message
\* of the entry, error being str(e)
PendingEntry ==
    [status |-> "pending", message |-> "Scan queued", error |-> "",
     results |-> <<>>]

CompletedEntry(results) ==
    [status |-> "completed", message |-> "Scan completed successfully",
     error |-> "", results |-> results]

FailedEntry(e) ==
    [status |-> "failed", message |-> "Scan failed: ", error |-> e,
     results |-> <<>>]

\* the ids uuid4 has returned
issued == DOMAIN scan_results \cup DOMAIN tasks \cup deleted

\* str(uuid.uuid4()): an id that was never returned before
uuid4 == Cardinality(issued) + 1

\* a background task added by add_task: where it is in run_scan_task; its
\* config argument is the object app.state.config itself
NewTask == [pc |-> "scheduled"]

\* the metrics of the six analyzers, or the first exception one of them raised
collect_all(cfg, e) ==
    [name \in Categories |-> Analyze(name, cfg, e)]

first_raised(rs) ==
    LET at == {i \in 1..Len(AnalyzerOrder) : rs[AnalyzerOrder[i]].exc # "none"}
    IN  IF at = {} THEN "none"
        ELSE rs[AnalyzerOrder[CHOOSE i \in at : \A j \in at : i <= j]].exc

\* the final_results of _run_scan
annotate(cfg, m, agg) ==
    IF agg.exc # "none" THEN [exc |-> agg.exc, val |-> <<>>]
    ELSE [exc |-> "none",
          val |-> [overall_score |-> agg.overall_score,
                   overall_level |->
                       upper(get_debt_level(cfg["thresholds"], agg.overall_score)),
                   category_scores |->
                       [c \in Categories |->
                          [score |-> agg.category_scores[c],
                           level |->
                               upper(get_debt_level(cfg["thresholds"],
                                                    agg.category_scores[c]))]],
                   metrics |-> m]]

\* the metrics dictionary of scan: the summary of every analyzer
metrics_of(rs) == [name \in Categories |-> rs[name].val]

\* scan after the loop, and the annotation of _run_scan
scan_outcome(cfg, rs) ==
    IF first_raised(rs) # "none" THEN [exc |-> first_raised(rs), val |-> <<>>]
    ELSE annotate(cfg, metrics_of(rs), aggregate(cfg, metrics_of(rs)))

\* what _run_scan(repo_path, config) returns or raises on the repository e
run_scan(cfg, e) == scan_outcome(cfg, collect_all(cfg, e))

\* the configurations app.state.config can hold after n requests
RECURSIVE ConfigsAfter(_)
ConfigsAfter(n) ==
    IF n = 0 THEN {StartupConfig}
    ELSE ConfigsAfter(n - 1) \cup
         UNION {{apply_overrides(cfg, overrides) :
                    overrides \in {o \in Overrides : ~overrides_raise(cfg, o)}} :
                cfg \in ConfigsAfter(n - 1)}

\* _run_scan on the one repository of the service, tabulated over the
\* configurations it can be called with
ScanOutcomes ==
    [cfg \in ConfigsAfter(MaxScans) |-> run_scan(cfg, BusyEnv)]

InitApi ==
    /\ pc = "ready"
    /\ fn = "none"
    /\ arg_value = Z(0) /\ arg_first = Z(0) /\ arg_second = Z(0)
    /\ norm_result = NoValue
    /\ config = StartupConfig
    /\ thresholds = config["thresholds"]
    /\ arg_score = Z(0) /\ arg_category = "none"
    /\ level_result = "none" /\ ct_result = NoThr
    /\ metrics = <<>> /\ agg_result = NoAgg
    /\ env = BusyEnv
    /\ summary = NoSummary
    /\ tool_calls = {}
    /\ agg_calls = 0
    /\ final_result = NoFinal
    /\ IdleService
    /\ IdleFiles

ApiFrame ==
    /\ UNCHANGED <<pc, fn, arg_value, arg_first, arg_second, norm_result,
                   thresholds, arg_score, arg_category, level_result, ct_result,
                   metrics, agg_result>>
    /\ UNCHANGED <<env, summary, tool_calls, agg_calls, final_result>>
    /\ UNCHANGED files_vars

\* POST /scan: the entry is stored, the overrides are applied to
\* app.state.config and the task is added; an exception of the overrides
\* ends the request after the entry was stored
Start_scan ==
    /\ Cardinality(issued) < MaxScans
    /\ \E overrides \in Overrides :
          /\ scan_results' = scan_results @@ (uuid4 :> PendingEntry)
          /\ IF overrides_raise(config, overrides)
             THEN UNCHANGED <<config, tasks>>
             ELSE /\ config' = apply_overrides(config, overrides)
                  /\ tasks' = tasks @@ (uuid4 :> NewTask)
    /\ UNCHANGED deleted
    /\ ApiFrame

\* DELETE /scan/{scan_id} of a stored id; any other id is answered with 404
Delete_scan(scan_id) ==
    /\ scan_id \in DOMAIN scan_results
    /\ scan_results' = [id \in DOMAIN scan_results \ {scan_id} |-> scan_results[id]]
    /\ deleted' = deleted \cup {scan_id}
    /\ UNCHANGED <<config, tasks>>
    /\ ApiFrame

\* run_scan_task up to the await: the status is set, or the KeyError of a
\* deleted id is caught and the failed entry is stored
Task_start(scan_id) ==
    /\ scan_id \in DOMAIN tasks
    /\ tasks[scan_id].pc = "scheduled"
    /\ IF scan_id \in DOMAIN scan_results
       THEN /\ scan_results' =
                  [scan_results EXCEPT ![scan_id].status = "running",
                                       ![scan_id].message = "Scan in progress"]
            /\ tasks' = [tasks EXCEPT ![scan_id].pc = "running"]
       ELSE /\ scan_results' = scan_results @@ (scan_id :> FailedEntry("KeyError"))
            /\ tasks' = [tasks EXCEPT ![scan_id].pc = "done"]
    /\ UNCHANGED <<config, deleted>>
    /\ ApiFrame

\* the entry run_scan_task stores for what scan_repository returned or raised
EntryOf(r) ==
    IF r.exc = "none" THEN CompletedEntry(r.val) ELSE FailedEntry(r.exc)

\* run_scan_task from the await on; an exception of the scan leaves the task
Task_finish_uncaught(scan_id) ==
    /\ scan_id \in DOMAIN tasks
    /\ tasks[scan_id].pc = "running"
    /\ scan_results' =
          IF ScanOutcomes[config].exc = "none"
          THEN (scan_id :> EntryOf(ScanOutcomes[config])) @@ scan_results
          ELSE scan_results
    /\ tasks' = [tasks EXCEPT ![scan_id].pc = "done"]
    /\ UNCHANGED <<config, deleted>>
    /\ ApiFrame

\* run_scan_task from the await on: _run_scan reads the configuration
\* object, and the entry is replaced by the results or by the message of the
\* exception
Task_finish(scan_id) ==
    /\ scan_id \in DOMAIN tasks
    /\ tasks[scan_id].pc = "running"
    /\ scan_results' = (scan_id :> EntryOf(ScanOutcomes[config])) @@ scan_results
    /\ tasks' = [tasks EXCEPT ![scan_id].pc = "done"]
    /\ UNCHANGED <<config, deleted>>
    /\ ApiFrame

NextApi ==
    \/ Start_scan
    \/ \E scan_id \in ScanIds : Delete_scan(scan_id)
    \/ \E scan_id \in ScanIds : Task_start(scan_id)
    \/ \E scan_id \in ScanIds : Task_finish(scan_id)

SpecApi == InitApi /\ [][NextApi]_vars

\* every scheduled task gets its turn on the event loop, and its scan
\* returns or raises
SpecApiFair ==
    /\ SpecApi
    /\ \A scan_id \in ScanIds :
          /\ WF_vars(Task_start(scan_id))
          /\ WF_vars(Task_finish(scan_id))

(***************************************************************************)
(* Properties of the normalizer, checked under SpecNorm.                   *)
(***************************************************************************)
Called(name) == pc = "done" /\ fn = name

InRange(x) == ~IsExc(x) /\ Leq(Z(0), x) /\ Leq(x, Z(100))

\* clamp(x, l, h) as the specification writes it
Clamp(x, l, h) == IF Less(x, l) THEN l ELSE IF Less(h, x) THEN h ELSE x

\* C1: every ScoreNormalizer function returns, without raising, a value in
\* the closed interval [0,100], for every value and every pair of reference
\* points (in either order, or equal).
C1_NormalizerTotalAndBounded ==
    (pc = "done" /\ fn \in NormalizerFns) => InRange(norm_result)

\* a call with min > max and a value above both has returned
C1_Witness ==
    /\ Called("normalize_inverse")
    /\ Less(arg_second, arg_first) /\ Less(arg_first, arg_value)
    /\ norm_result = Z(100)

\* C2: for min # max, normalize(value, min, max) is
\* clamp(((value - min) / (max - min)) * 100, 0, 100); for min < max it maps
\* min to 0 and max to 100 and is non-decreasing in value.
C2_NormalizeFormula ==
    (Called("normalize") /\ arg_first # arg_second) =>
        /\ norm_result =
              Clamp(Mul(Div(Sub(arg_value, arg_first), Sub(arg_second, arg_first)),
                        Z(100)),
                    Z(0), Z(100))
        /\ Less(arg_first, arg_second) =>
              /\ arg_value = arg_first => norm_result = Z(0)
              /\ arg_value = arg_second => norm_result = Z(100)
              /\ \A w \in RawVals :
                    Leq(arg_value, w) =>
                        Leq(norm_result, normalize(w, arg_first, arg_second))

\* a value strictly inside an ascending range got a score strictly inside (0,100)
C2_Witness ==
    /\ Called("normalize")
    /\ Less(arg_first, arg_value) /\ Less(arg_value, arg_second)
    /\ Less(Z(0), norm_result) /\ Less(norm_result, Z(100))

\* C3: normalize(value, X, X) returns 0 for every value and every X, and
\* raises no ZeroDivisionError.
C3_DegenerateRangeIsZero ==
    (Called("normalize") /\ arg_first = arg_second) => norm_result = Z(0)

\* a degenerate range was normalized for a value different from X
C3_Witness ==
    /\ Called("normalize")
    /\ arg_first = arg_second /\ arg_value # arg_first
    /\ norm_result = Z(0)

\* C4: normalize_inverse(v, lo, hi) and normalize(v, lo, hi) add up to 100
\* for all v, lo, hi, also when lo = hi or lo > hi.
C4_InverseIsComplement ==
    Called("normalize_inverse") =>
        /\ ~IsExc(norm_result)
        /\ Add(norm_result, normalize(arg_value, arg_first, arg_second)) = Z(100)

\* normalize_inverse was called on a degenerate range and returned 100 - 0
C4_Witness ==
    /\ Called("normalize_inverse")
    /\ arg_first = arg_second
    /\ norm_result = Z(100)

\* C5: normalize_ratio(value, ideal, worst) is
\* normalize_inverse(value, worst, ideal) when ideal > worst and
\* normalize(value, ideal, worst) otherwise.
C5_RatioDirection ==
    Called("normalize_ratio") =>
        norm_result =
            IF Less(arg_second, arg_first)
            THEN normalize_inverse(arg_value, arg_second, arg_first)
            ELSE normalize(arg_value, arg_first, arg_second)

\* a descending ratio (ideal > worst) was scored for a value between the two
C5_Witness ==
    /\ Called("normalize_ratio")
    /\ Less(arg_second, arg_value) /\ Less(arg_value, arg_first)
    /\ Less(Z(0), norm_result) /\ Less(norm_result, Z(100))

\* C6: for ideal > worst, normalize_inverse_percentage(value, ideal, worst)
\* maps ideal to 0 and worst to 100, and a higher value never gets a higher
\* score.
C6_InversePercentageDescending ==
    (Called("normalize_inverse_percentage") /\ Less(arg_second, arg_first)) =>
        /\ arg_value = arg_first => norm_result = Z(0)
        /\ arg_value = arg_second => norm_result = Z(100)
        /\ \A w \in RawVals :
              Less(arg_value, w) =>
                  Leq(normalize_inverse_percentage(w, arg_first, arg_second),
                      norm_result)

\* a coverage-like value equal to worst (below ideal) was scored 100
C6_Witness ==
    /\ Called("normalize_inverse_percentage")
    /\ Less(arg_second, arg_first) /\ arg_value = arg_second
    /\ norm_result = Z(100)

\* C7: when the two reference points are equal, every normalization
\* function returns 0, whatever the value.
C7_DegenerateYieldsZeroEverywhere ==
    (pc = "done" /\ fn \in NormalizerFns /\ arg_first = arg_second) =>
        norm_result = Z(0)

(***************************************************************************)
(* Properties of the classifier, checked under SpecThresholds.             *)
(***************************************************************************)
\* C8: get_debt_level returns high exactly for score >= high, medium exactly
\* for medium <= score < high and low otherwise, so a score on a cut point
\* belongs to the higher level and every score gets exactly one level.
C8_DebtLevelBoundaries ==
    Called("get_debt_level") =>
        /\ level_result \in {"low", "medium", "high"}
        /\ level_result = "high" <=> Leq(thresholds.high, arg_score)
        /\ level_result = "medium" <=>
              (Leq(thresholds.medium, arg_score) /\ Less(arg_score, thresholds.high))
        /\ level_result = "low" <=>
              (Less(arg_score, thresholds.medium) /\ Less(arg_score, thresholds.high))

\* a score exactly on the medium cut point, below high, was classified medium
C8_Witness ==
    /\ Called("get_debt_level")
    /\ arg_score = thresholds.medium /\ Less(thresholds.medium, thresholds.high)
    /\ level_result = "medium"

\* C9: get_category_thresholds returns the category's override when one is
\* configured and the global thresholds otherwise, also for a configuration
\* without a category_thresholds section.
C9_CategoryThresholdsOrDefault ==
    Called("get_category_thresholds") =>
        /\ ct_result.exc = "none"
        /\ ct_result.val =
              IF /\ "category_thresholds" \in DOMAIN config
                 /\ arg_category \in DOMAIN config["category_thresholds"]
              THEN config["category_thresholds"][arg_category]
              ELSE config["thresholds"]

(***************************************************************************)
(* Properties of the aggregator, checked under SpecAggregator.             *)
(***************************************************************************)
\* the sum of f over the six fixed categories
SixSum(f(_)) ==
    Add(Add(Add(Add(Add(f("complexity"), f("duplication")), f("test_quality")),
                f("dependencies")), f("churn")), f("readability"))

\* C10: for every weights mapping that has the six category keys, aggregate
\* returns sum(score[c] * weight[c]) / sum(weight[c]), both sums over exactly
\* the six categories.
C10_WeightedMeanOverSixCategories ==
    LET w(c) == config["weights"][c]
        s(c) == metrics[c][ScoreField(c)]
        sw(c) == Mul(s(c), w(c))
    IN  (/\ Called("aggregate")
         /\ Categories \subseteq DOMAIN metrics
         /\ Categories \subseteq DOMAIN config["weights"]
         /\ SixSum(w) # Z(0)) =>
            /\ agg_result.exc = "none"
            /\ agg_result.overall_score = Div(SixSum(sw), SixSum(w))

\* C11: when the six category scores are in [0,100] and the weights are
\* nonnegative and not all zero, aggregate returns an overall_score in [0,100].
C11_OverallScoreInRange ==
    (/\ Called("aggregate")
     /\ Categories \subseteq DOMAIN metrics
     /\ \A c \in Categories : InRange(metrics[c][ScoreField(c)])
     /\ Categories \subseteq DOMAIN config["weights"]
     /\ \A k \in DOMAIN config["weights"] : Leq(Z(0), config["weights"][k])
     /\ \E k \in DOMAIN config["weights"] : config["weights"][k] # Z(0)) =>
        /\ agg_result.exc = "none"
        /\ InRange(agg_result.overall_score)

\* the weighted example of section 8: complexity weighs 2, the others 1
C11_Witness ==
    /\ Called("aggregate")
    /\ DOMAIN config["weights"] = Categories
    /\ config["weights"]["complexity"] = Z(2)
    /\ \A c \in Categories \ {"complexity"} : config["weights"][c] = Z(1)
    /\ agg_result.exc = "none"
    /\ agg_result.overall_score = Num(330, 7)

\* C13: when one of the six category keys is missing from the collected
\* metrics or from the weights, aggregate raises KeyError and returns no
\* overall_score.
C13_MissingCategoryRaises ==
    (/\ Called("aggregate")
     /\ \/ ~(Categories \subseteq DOMAIN metrics)
        \/ ~(Categories \subseteq DOMAIN config["weights"])) =>
        agg_result.exc = "KeyError"

\* aggregate was called with all six summaries but without a churn weight
C13_Witness ==
    /\ Called("aggregate")
    /\ Categories \subseteq DOMAIN metrics
    /\ "churn" \notin DOMAIN config["weights"]
    /\ agg_result.exc = "KeyError"

(***************************************************************************)
(* Properties of the collectors, checked under SpecCollectors.             *)
(***************************************************************************)
Weight0(section, key) ==
    /\ section \in DOMAIN config
    /\ config[section][key] = Z(0)

\* C14: when the repository has no go.mod, DependencyAnalyzer.analyze
\* returns score 0 and is_module False, for every configuration of ideal and
\* worst reference points and sub-weights (weights that sum to zero and a
\* missing dependencies section included), and no external tool is run.
C14_NonModuleScoresZero ==
    (Called("dependencies") /\ ~env.has_go_mod) =>
        /\ summary.exc = "none"
        /\ summary.val.score = Z(0)
        /\ summary.val.is_module = FALSE
        /\ tool_calls = {}

\* a repository without go.mod was analysed under sub-weights that sum to
\* zero, on a machine where the go binary is missing
C14_Witness ==
    /\ Called("dependencies") /\ ~env.has_go_mod
    /\ Weight0("dependencies", "outdated_weight")
    /\ Weight0("dependencies", "vulnerable_weight")
    /\ env.go_list.status = "missing"
    /\ summary.exc = "none" /\ summary.val.score = Z(0)

\* C15: the complexity collector's overall_score is
\* (cyclomatic_score * cyclomatic_weight + cognitive_score * cognitive_weight)
\* / (cyclomatic_weight + cognitive_weight), each sub-score being
\* normalize(average, ideal, worst) of the average the tool reported.
C15_ComplexityWeightedMean ==
    (Called("complexity") /\ summary.exc = "none") =>
        LET v == summary.val
            c == config["complexity"]
        IN  /\ v.cyclomatic.average = ParseComplexity(env.gocyclo.out).average_complexity
            /\ v.cognitive.average = ParseComplexity(env.gocognit.out).average_complexity
            /\ v.cyclomatic.score =
                  normalize(v.cyclomatic.average, c.cyclomatic_ideal, c.cyclomatic_worst)
            /\ v.cognitive.score =
                  normalize(v.cognitive.average, c.cognitive_ideal, c.cognitive_worst)
            /\ Add(c.cyclomatic_weight, c.cognitive_weight) # Z(0)
            /\ Mul(v.overall_score, Add(c.cyclomatic_weight, c.cognitive_weight)) =
                  Add(Mul(v.cyclomatic.score, c.cyclomatic_weight),
                      Mul(v.cognitive.score, c.cognitive_weight))

\* the two sub-scores 100 and 0 under the weights 2 and 1 gave 200/3
C15_Witness ==
    /\ Called("complexity") /\ summary.exc = "none"
    /\ summary.val.cyclomatic.score = Z(100)
    /\ summary.val.cognitive.score = Z(0)
    /\ config["complexity"].cyclomatic_weight = Z(2)
    /\ config["complexity"].cognitive_weight = Z(1)
    /\ summary.val.overall_score = Num(200, 3)

\* the commands a collector starts
ToolsOf(name) ==
    CASE name = "complexity" -> {"gocyclo", "gocognit"}
      [] name = "duplication" -> {"scc"}
      [] name = "test_quality" -> {"go_test"}
      [] name = "dependencies" -> {"go_list", "govulncheck"}
      [] name = "churn" -> {"git"}
      [] name = "readability" -> {"golint", "gofmt"}

\* C19: when an external tool cannot run (binary missing or non-zero exit),
\* every collector's analyze still returns a conforming summary with a score
\* in [0,100]; no process error propagates out of the collector.  Stated for
\* the complete configuration, so that no configuration error interferes.
C19_CollectorsSurviveToolFailure ==
    (/\ pc = "done" /\ fn \in Categories
     /\ config = BaseConfig
     /\ \E t \in ToolsOf(fn) : env[t].status # "ok") =>
        /\ summary.exc = "none"
        /\ InRange(summary.val[ScoreField(fn)])

\* the repository as it would be had the failed commands of the collector
\* run and measured nothing
MeasuredZero(name, e) ==
    CASE name = "churn" ->
           [e EXCEPT !.git = Run("ok", [commits |-> 0, churn |-> Z(0)])]
      [] name = "complexity" ->
           [e EXCEPT
              !.gocyclo = IF e.gocyclo.out.printed THEN @
                          ELSE Run("ok", [printed |-> TRUE, avg |-> Z(0),
                                          violations |-> 0]),
              !.gocognit = IF e.gocognit.out.printed THEN @
                           ELSE Run("ok", [printed |-> TRUE, avg |-> Z(0),
                                           violations |-> 0])]

\* a command of the collector failed: git exited non-zero, or gocyclo or
\* gocognit printed nothing
ToolFailed(name, e) ==
    CASE name = "churn" -> e.git.status = "nonzero"
      [] name = "complexity" ->
           /\ e.gocyclo.status # "missing" /\ e.gocognit.status # "missing"
           /\ ~e.gocyclo.out.printed \/ ~e.gocognit.out.printed

\* C20: a failed tool invocation is never silently turned into a score of 0:
\* in the churn and the complexity collector, a tool failure either makes
\* analyze raise or gives a summary that differs from the summary of a
\* successful measurement of 0.
C20_ToolFailureNeverLooksLikeZero ==
    (/\ pc = "done" /\ fn \in {"churn", "complexity"}
     /\ config = BaseConfig
     /\ ToolFailed(fn, env)) =>
        \/ summary.exc # "none"
        \/ summary.val # Analyze(fn, config, MeasuredZero(fn, env)).val

(***************************************************************************)
(* Properties of a whole scan, checked under SpecScan.                     *)
(***************************************************************************)
\* C12: a configuration whose weights sum to zero is rejected when it is
\* loaded, before any collector runs: the zero total is never discovered as
\* a division by zero inside aggregate.
C12_ZeroWeightsNeverReachAggregate ==
    ~(/\ SumValues(config["weights"], DOMAIN config["weights"]) = Z(0)
      /\ agg_calls > 0
      /\ agg_result.exc = "ZeroDivisionError")

\* the scale the category is to be classified on: its override when one is
\* configured, the global thresholds otherwise
CategoryScale(c) ==
    IF "category_thresholds" \in DOMAIN config
       /\ c \in DOMAIN config["category_thresholds"]
    THEN config["category_thresholds"][c]
    ELSE config["thresholds"]

\* C17: in the scan result, the level annotated on each category score is
\* the classification of that score against the category's own thresholds:
\* the per-category override when one is configured, the global thresholds
\* otherwise.
C17_LevelsUseCategoryThresholds ==
    (pc = "done" /\ fn = "scan" /\ final_result.exc = "none") =>
        \A c \in Categories :
            LET annotated == final_result.val.category_scores[c]
            IN  annotated.level =
                    upper(get_debt_level(CategoryScale(c), annotated.score))

\* C18: the aggregator is invoked only after all six collectors have
\* returned their summaries, at most once per scan, and never in a scan in
\* which a collector raised.
C18_AggregateAfterAllCollectors ==
    /\ agg_calls <= 1
    /\ agg_calls > 0 => DOMAIN metrics = Categories
    /\ summary.exc \notin {"none", "not called"} => agg_calls = 0

\* a scan has aggregated the six summaries once and has finished
C18_Witness ==
    /\ fn = "scan" /\ pc = "done"
    /\ agg_calls = 1 /\ agg_result.exc = "none"
    /\ DOMAIN metrics = Categories
    /\ env = BusyEnv

(***************************************************************************)
(* Further properties of the collectors and of the normalizer.             *)
(***************************************************************************)
\* C21: for every configuration whose sub-weights are nonnegative with a
\* nonzero sum, and for every raw measurement, the score (or overall_score)
\* field a collector returns lies in [0,100].  (With sub-weights that sum to
\* zero, or a missing section, analyze raises and returns no score.)
C21_CollectorScoreInRange ==
    (pc = "done" /\ fn \in Categories /\ summary.exc = "none") =>
        /\ ScoreField(fn) \in DOMAIN summary.val
        /\ Leq(Z(0), summary.val[ScoreField(fn)])
        /\ Leq(summary.val[ScoreField(fn)], Z(100))

\* the test collector has returned a score strictly inside the interval,
\* mixed from two different sub-scores under unequal sub-weights
C21_Witness ==
    /\ Called("test_quality") /\ summary.exc = "none"
    /\ summary.val.coverage_score # summary.val.ratio_score
    /\ config["test_quality"].coverage_weight = Z(2)
    /\ config["test_quality"].ratio_weight = Z(1)
    /\ Less(Z(0), summary.val.overall_score)
    /\ Less(summary.val.overall_score, Z(100))

C27_CliLevelIsClassifierLevel ==
    Called("cli_breakdown") =>
        level_result = upper(get_debt_level(config["thresholds"], arg_score))

(***************************************************************************)
(* Property of the file search, checked under SpecFiles.                   *)
(***************************************************************************)
\* C30: the file list handed to the collectors holds exactly the .go files
\* of the repository that are not in or below a vendor directory or a
\* hidden directory of the repository, whatever the absolute path of the
\* repository root is.
C30_GoFilesOutsideVendorAndHidden ==
    Called("_find_go_files") =>
        found_files =
            {d \in repo_tree :
               \A i \in 1..Len(d) : d[i] # "vendor" /\ d[i] \notin DotNames}

(***************************************************************************)
(* Properties of the API service, checked under SpecApi and SpecApiFair.   *)
(***************************************************************************)
\* C22: the configuration shared by the scans is read-only: the object
\* every scan reads and every later request starts from is the startup
\* configuration, whatever overrides the requests so far have carried.
C22_SharedConfigIsReadOnly ==
    config = StartupConfig

\* C23: every id POST /scan has created has its background task, exactly
\* one, whatever requests came before or between.
C23_OneTaskPerScanId ==
    \A scan_id \in issued : scan_id \in DOMAIN tasks

TerminalStatuses == {"completed", "failed"}

\* C24: a stored status is pending, running, completed or failed; an entry
\* appears as pending; an entry that stays goes from pending to running and
\* from running to completed or failed, and a completed or failed entry
\* never changes.
C24_StatusMovesForward ==
    [][\A scan_id \in ScanIds :
          /\ scan_id \in DOMAIN scan_results' =>
                scan_results'[scan_id].status \in
                    {"pending", "running"} \cup TerminalStatuses
          /\ (scan_id \notin DOMAIN scan_results /\ scan_id \in DOMAIN scan_results')
                => scan_results'[scan_id].status = "pending"
          /\ (scan_id \in DOMAIN scan_results /\ scan_id \in DOMAIN scan_results')
                => LET before == scan_results[scan_id]
                       after  == scan_results'[scan_id]
                   IN  \/ after = before
                       \/ before.status = "pending" /\ after.status = "running"
                       \/ /\ before.status = "running"
                          /\ after.status \in TerminalStatuses]_vars

\* C25: an id that DELETE /scan/{id} has removed is never in the store
\* again, also when its task was still to run or to finish.
C25_DeletedStaysDeleted ==
    \A scan_id \in deleted : scan_id \notin DOMAIN scan_results

\* the entry of a task that has ended: completed with the four results, or
\* failed with the message of the exception
EndedEntry(scan_id) ==
    /\ scan_id \in DOMAIN scan_results
    /\ \/ /\ scan_results[scan_id].status = "completed"
          /\ DOMAIN scan_results[scan_id].results =
                {"overall_score", "overall_level", "category_scores", "metrics"}
       \/ /\ scan_results[scan_id].status = "failed"
          /\ scan_results[scan_id].error # ""

\* C26: every scheduled task ends, and ends with its entry completed and
\* carrying the results, or failed and carrying the message; an exception of
\* the scan does not leave the entry running.
C26_EveryScanEnds ==
    \A scan_id \in ScanIds :
        (scan_id \in DOMAIN tasks /\ tasks[scan_id].pc # "done")
            ~> (/\ scan_id \in DOMAIN tasks
                /\ tasks[scan_id].pc = "done"
                /\ EndedEntry(scan_id))

\* a scan has raised, and its entry is failed with the message
C26_Witness ==
    \E scan_id \in DOMAIN tasks :
        /\ tasks[scan_id].pc = "done"
        /\ ScanOutcomes[config].exc = "ZeroDivisionError"
        /\ scan_id \in DOMAIN scan_results
        /\ scan_results[scan_id] = FailedEntry("ZeroDivisionError")

\* the merge at every depth: a key the override does not name keeps its
\* value, a key it names takes the override's value
RECURSIVE DeepMerge(_, _)
DeepMerge(base, over) ==
    [k \in DOMAIN base \cup DOMAIN over |->
        IF k \notin DOMAIN over THEN base[k]
        ELSE IF k \notin DOMAIN base THEN over[k]
        ELSE IF isinstance_dict(base[k]) /\ isinstance_dict(over[k])
        THEN DeepMerge(base[k], over[k])
        ELSE over[k]]

\* C28: applying config_overrides is a deep merge: every step leaves the
\* configuration as the deep merge of what it was with the overrides of a
\* request (with none, when the step is not a request with overrides).
C28_OverridesAreDeepMerged ==
    [][config' \in {DeepMerge(config, overrides) : overrides \in Overrides}]_vars

====
